---- MODULE Spec2Model ----
(***************************************************************************)
(* Appointment booking backend (Express handlers over a MongoDB            *)
(* collection).  The model covers the controller                           *)
(* (getAvailableSlots, createAppointment, getAllAppointments,              *)
(* cancelAppointment, confirmAppointment), the slot grid generator         *)
(* (generateAllTimeSlots), the Appointment collection they share, and the  *)
(* earlier version of the controller and of the generator.                 *)
(*                                                                         *)
(* A time label "HH:MM" is the pair <<HH, MM>>; the zero padding of the    *)
(* source only fixes the textual form, so tuple order is string order.     *)
(* A date string is <<kind, day, hour>>: kind "" is a missing field,       *)
(* "bad" a string new Date() cannot parse, "iso" a parsable date.          *)
(***************************************************************************)
EXTENDS Integers, Sequences, FiniteSets, TLC

VARIABLES store, pc, req, outcome, last

vars == <<store, pc, req, outcome, last>>

(***************************************************************************)
(* Bounds and input alphabets                                              *)
(***************************************************************************)
\* Number of createAppointment requests that may be in flight or completed.
NumRequests == 2

\* Requests are numbered in order of arrival.
Requests == 1..NumRequests

\* Number of createAppointment requests of the bookings-only specification.
MaxCreates == 3

\* Number of createAppointment requests of the small specifications.
FewRequests == 1

\* req.body.date / req.params.date values.
MissingDate == <<"", 0, 0>>
BadDate == <<"bad", 0, 0>>
DateInputs == {MissingDate, BadDate, <<"iso", 1, 0>>, <<"iso", 1, 10>>, <<"iso", 2, 0>>}

\* req.body.timeSlot values: missing, two grid labels around the lunch
\* boundary, and a label inside the lunch window (not on the grid).
MissingSlot == <<>>
TimeSlotInputs == {MissingSlot, <<11, 30>>, <<12, 0>>, <<12, 30>>}

\* req.body.duration values; NoDuration is an absent field.
NoDuration == -1
DurationInputs == {NoDuration, 15, 30, 45, 60}

\* A request body: clientName and clientEmail matter only by presence.
Bodies == [date : DateInputs, timeSlot : TimeSlotInputs,
           duration : DurationInputs, client : BOOLEAN]

\* req.params.id values: 0 is a string that is no ObjectId; NumRequests + 1
\* is a well-formed id that names no document.
IdInputs == 0..(NumRequests + 1)

(***************************************************************************)
(* utils/timeSlots: the slot grid                                          *)
(***************************************************************************)
START_HOUR == 6
END_LIMIT_MINUTES == 1230
SLOT_DURATION_MINUTES == 30
LUNCH_START_MINUTES == 750
LUNCH_END_MINUTES == 840

\* `${hours}:${minutes}` of a minute offset from midnight.
FormatLabel(minutes) == <<minutes \div 60, minutes % 60>>

\* A loop without the lunch skip.
RECURSIVE SlotsThroughLunch(_)
SlotsThroughLunch(currentTimeMinutes) ==
    IF currentTimeMinutes < END_LIMIT_MINUTES
    THEN <<FormatLabel(currentTimeMinutes)>>
             \o SlotsThroughLunch(currentTimeMinutes + SLOT_DURATION_MINUTES)
    ELSE <<>>

\* A loop whose condition is currentTimeMinutes <= endLimitMinutes.
RECURSIVE SlotsToLimitInclusive(_)
SlotsToLimitInclusive(currentTimeMinutes) ==
    IF currentTimeMinutes <= END_LIMIT_MINUTES
    THEN IF currentTimeMinutes >= LUNCH_START_MINUTES
            /\ currentTimeMinutes < LUNCH_END_MINUTES
         THEN SlotsToLimitInclusive(LUNCH_END_MINUTES)
         ELSE <<FormatLabel(currentTimeMinutes)>>
                  \o SlotsToLimitInclusive(currentTimeMinutes + SLOT_DURATION_MINUTES)
    ELSE <<>>

RECURSIVE SlotsFrom(_)
SlotsFrom(currentTimeMinutes) ==
    IF currentTimeMinutes < END_LIMIT_MINUTES
    THEN IF currentTimeMinutes >= LUNCH_START_MINUTES
            /\ currentTimeMinutes < LUNCH_END_MINUTES
         THEN SlotsFrom(LUNCH_END_MINUTES)
         ELSE <<FormatLabel(currentTimeMinutes)>>
                  \o SlotsFrom(currentTimeMinutes + SLOT_DURATION_MINUTES)
    ELSE <<>>

generateAllTimeSlots == SlotsFrom(START_HOUR * 60)

(***************************************************************************)
(* Controller helpers                                                      *)
(***************************************************************************)
\* The time value of an unparsable date (NaN).
InvalidDate == 0

\* new Date(dateString) with the time of day cleared.
parseDate(dateString) ==
    IF dateString[1] = "iso" THEN dateString[2] ELSE InvalidDate

\* The label 30 minutes later, on a 24 hour clock.
getNextTimeSlot(currentTime) ==
    LET total == (currentTime[1] * 60 + currentTime[2] + 30) % 1440
    IN  <<total \div 60, total % 60>>

getAffectedTimeSlots(startTime, duration) ==
    IF duration = 60 THEN <<startTime, getNextTimeSlot(startTime)>>
                     ELSE <<startTime>>

\* const { ..., duration = 60 } = req.body
DurationOf(body) == IF body.duration = NoDuration THEN 60 ELSE body.duration

\* A status filter that lets every status through.
AnyStatus(a) == a.status \in {"pending", "confirmed", "cancelled"}

\* status: { $in: ["pending", "confirmed"] }
IsActive(a) == a.status \in {"pending", "confirmed"}

\* mongoose.Types.ObjectId.isValid(id)
IsValidObjectId(id) == id # 0

Range(s) == {s[i] : i \in 1..Len(s)}

\* Appointment.find({date, status: {$in: [...]}}): ids of the matches.
FindActive(st, targetDate) ==
    {i \in 1..Len(st) : st[i].date = targetDate /\ IsActive(st[i])}

\* A conflict query without the timeSlot condition.
FindOccupiedOnAnyLabel(st, targetDate, slotsToVerify) == FindActive(st, targetDate)

\* Appointment.find({date, timeSlot: {$in: slotsToVerify}, status: ...}).
FindOccupied(st, targetDate, slotsToVerify) ==
    {i \in FindActive(st, targetDate) : st[i].timeSlot \in Range(slotsToVerify)}

\* The bookedSlots set built by getAvailableSlots.
BookedSlots(st, targetDate) ==
    UNION {IF st[i].duration = 60
           THEN {st[i].timeSlot, getNextTimeSlot(st[i].timeSlot)}
           ELSE {st[i].timeSlot} : i \in FindActive(st, targetDate)}

\* allSlots.filter(...): rules A, B and C.
SlotPasses(allSlots, index, bookedSlots) ==
    /\ allSlots[index] \notin bookedSlots
    /\ index + 1 <= Len(allSlots)
    /\ allSlots[index + 1] \notin bookedSlots

AvailableSlots(st, targetDate) ==
    LET allSlots == generateAllTimeSlots
        bookedSlots == BookedSlots(st, targetDate)
    IN  SelectSeq([i \in 1..Len(allSlots) |-> <<i, allSlots[i]>>],
                  LAMBDA e : SlotPasses(allSlots, e[1], bookedSlots))

Labels(indexed) == [i \in 1..Len(indexed) |-> indexed[i][2]]

(***************************************************************************)
(* Responses                                                               *)
(***************************************************************************)
NoLabel == <<>>

\* The response most recently sent: the handler, the HTTP status, the number
\* of store calls the handler issued, and the parts of the body in use.
Response(op, status, calls, date, slots, conflictSlot) ==
    [op |-> op, status |-> status, calls |-> calls, date |-> date,
     slots |-> slots, conflictSlot |-> conflictSlot]

NoResponse == Response("none", 0, 0, InvalidDate, <<>>, NoLabel)

NoReq == [date |-> InvalidDate, timeSlot |-> NoLabel, duration |-> 0]

\* An empty collection and a set of requests that have not arrived yet.
InitWith(requests) ==
    /\ store = <<>>
    /\ pc = [p \in requests |-> "idle"]
    /\ req = [p \in requests |-> NoReq]
    /\ outcome = [p \in requests |-> 0]
    /\ last = NoResponse

Init == InitWith(Requests)

(***************************************************************************)
(* createAppointment                                                       *)
(***************************************************************************)
Finish(p, status, calls, conflictSlot) ==
    /\ pc' = [pc EXCEPT ![p] = "done"]
    /\ req' = [req EXCEPT ![p] = NoReq]
    /\ outcome' = [outcome EXCEPT ![p] = status]
    /\ last' = Response("create", status, calls, InvalidDate, <<>>, conflictSlot)

\* if (!date || !timeSlot || !clientName || !clientEmail || duration < 30)
FailsBasicValidation(body) ==
    \/ body.date = MissingDate
    \/ body.timeSlot = MissingSlot
    \/ ~body.client
    \/ DurationOf(body) < 30

\* The handler from its entry to the answer of the availability query.  The
\* query either fails (always, for an Invalid Date, which the store cannot
\* cast) or answers; the find is unsorted, so which matching document comes
\* first, and gives conflictSlot, is the store's choice.
CreateCheck(p, body) ==
    /\ pc[p] = "idle"
    /\ \A q \in DOMAIN pc : q < p => pc[q] # "idle"
    /\ IF FailsBasicValidation(body)
       THEN /\ Finish(p, 400, 0, NoLabel)
            /\ UNCHANGED store
       ELSE LET targetDate == parseDate(body.date)
                slotsToVerify == getAffectedTimeSlots(body.timeSlot, DurationOf(body))
                occupiedAppointments == FindOccupied(store, targetDate, slotsToVerify)
            IN  \/ /\ Finish(p, 500, 1, NoLabel)
                   /\ UNCHANGED store
                \/ /\ targetDate # InvalidDate
                   /\ occupiedAppointments # {}
                   /\ \E first \in occupiedAppointments :
                          Finish(p, 409, 1, store[first].timeSlot)
                   /\ UNCHANGED store
                \/ /\ targetDate # InvalidDate
                   /\ occupiedAppointments = {}
                   /\ pc' = [pc EXCEPT ![p] = "save"]
                   /\ req' = [req EXCEPT ![p] = [date |-> targetDate,
                                                 timeSlot |-> body.timeSlot,
                                                 duration |-> DurationOf(body)]]
                   /\ UNCHANGED <<store, outcome, last>>

\* A save that inserts one document per label the appointment occupies.
CreateSaveOnePerLabel(p) ==
    /\ pc[p] = "save"
    /\ store' = store \o [i \in 1..Len(getAffectedTimeSlots(req[p].timeSlot, req[p].duration)) |->
                             [date |-> req[p].date,
                              timeSlot |-> getAffectedTimeSlots(req[p].timeSlot, req[p].duration)[i],
                              duration |-> 30, status |-> "pending", req |-> p]]
    /\ Finish(p, 201, 2, NoLabel)

\* newAppointment.save() resolves: the document is inserted, 201 is sent.
CreateSaveOk(p) ==
    /\ pc[p] = "save"
    /\ store' = Append(store, [date |-> req[p].date, timeSlot |-> req[p].timeSlot,
                               duration |-> req[p].duration, status |-> "pending",
                               req |-> p])
    /\ Finish(p, 201, 2, NoLabel)

\* A save that inserts the document and then rejects.
CreateSaveFailAfterInsert(p) ==
    /\ pc[p] = "save"
    /\ store' = Append(store, [date |-> req[p].date, timeSlot |-> req[p].timeSlot,
                               duration |-> req[p].duration, status |-> "pending",
                               req |-> p])
    /\ Finish(p, 500, 2, NoLabel)

\* newAppointment.save() rejects: nothing is inserted, 500 is sent.
CreateSaveFail(p) ==
    /\ pc[p] = "save"
    /\ UNCHANGED store
    /\ Finish(p, 500, 2, NoLabel)

(***************************************************************************)
(* getAvailableSlots                                                       *)
(***************************************************************************)
GetAvailableSlots(dateString) ==
    LET targetDate == parseDate(dateString)
    IN  /\ IF dateString = MissingDate
           THEN last' = Response("slots", 400, 0, InvalidDate, <<>>, NoLabel)
           ELSE \/ last' = Response("slots", 500, 1, InvalidDate, <<>>, NoLabel)
                \/ /\ targetDate # InvalidDate
                   /\ last' = Response("slots", 200, 1, targetDate,
                                       Labels(AvailableSlots(store, targetDate)), NoLabel)
        /\ UNCHANGED <<store, pc, req, outcome>>

(***************************************************************************)
(* getAllAppointments                                                      *)
(***************************************************************************)
\* An order on the timeSlot key alone.
TimeSlotOnlyOrder(a, b) ==
    \/ a.timeSlot[1] < b.timeSlot[1]
    \/ a.timeSlot[1] = b.timeSlot[1] /\ a.timeSlot[2] <= b.timeSlot[2]

\* .sort({ date: 1, timeSlot: 1 }): a may come before b.  The timeSlot
\* strings compare as their <<HH, MM>> pairs do.
SortOrder(a, b) ==
    \/ a.date < b.date
    \/ /\ a.date = b.date
       /\ \/ a.timeSlot[1] < b.timeSlot[1]
          \/ a.timeSlot[1] = b.timeSlot[1] /\ a.timeSlot[2] <= b.timeSlot[2]

\* .select('date timeSlot clientName clientEmail duration status'), with _id.
Selected(st, id) ==
    [id |-> id, date |-> st[id].date, timeSlot |-> st[id].timeSlot,
     duration |-> st[id].duration, status |-> st[id].status]

\* The orders in which the sorted find may return the matching documents:
\* documents with equal keys come in an order the store chooses.
SortedFinds(st) ==
    LET ids == {i \in 1..Len(st) : IsActive(st[i])}
    IN  {order \in [1..Cardinality(ids) -> ids] :
            /\ \A i, j \in 1..Cardinality(ids) : i # j => order[i] # order[j]
            /\ \A i, j \in 1..Cardinality(ids) :
                   i < j => SortOrder(st[order[i]], st[order[j]])}

\* res.status(...).json(appointments)
ListResponse(status, appointments) ==
    [op |-> "list", status |-> status, calls |-> 1, date |-> InvalidDate,
     slots |-> <<>>, conflictSlot |-> NoLabel, appointments |-> appointments]

GetAllAppointments ==
    /\ \/ last' = ListResponse(500, <<>>)
       \/ \E order \in SortedFinds(store) :
              last' = ListResponse(200, [i \in 1..Len(order) |-> Selected(store, order[i])])
    /\ UNCHANGED <<store, pc, req, outcome>>

(***************************************************************************)
(* cancelAppointment / confirmAppointment                                  *)
(***************************************************************************)
\* An update that matches on the date of the named document (updateMany)
\* instead of on its id.
UpdateStatusOfDate(op, id, newStatus) ==
    /\ IF ~IsValidObjectId(id)
       THEN /\ last' = Response(op, 400, 0, InvalidDate, <<>>, NoLabel)
            /\ UNCHANGED store
       ELSE \/ /\ last' = Response(op, 500, 1, InvalidDate, <<>>, NoLabel)
               /\ UNCHANGED store
            \/ /\ id \in 1..Len(store)
               /\ store' = [k \in 1..Len(store) |->
                               IF store[k].date = store[id].date
                               THEN [store[k] EXCEPT !.status = newStatus]
                               ELSE store[k]]
               /\ last' = Response(op, 200, 1, InvalidDate, <<>>, NoLabel)
            \/ /\ id \notin 1..Len(store)
               /\ last' = Response(op, 404, 1, InvalidDate, <<>>, NoLabel)
               /\ UNCHANGED store
    /\ UNCHANGED <<pc, req, outcome>>

\* A handler without the if (!appointment) test: it answers 200 either way.
UpdateStatusUnchecked(op, id, newStatus) ==
    /\ IF ~IsValidObjectId(id)
       THEN /\ last' = Response(op, 400, 0, InvalidDate, <<>>, NoLabel)
            /\ UNCHANGED store
       ELSE \/ /\ last' = Response(op, 500, 1, InvalidDate, <<>>, NoLabel)
               /\ UNCHANGED store
            \/ /\ store' = IF id \in 1..Len(store)
                            THEN [store EXCEPT ![id].status = newStatus]
                            ELSE store
               /\ last' = Response(op, 200, 1, InvalidDate, <<>>, NoLabel)
    /\ UNCHANGED <<pc, req, outcome>>

\* Appointment.findByIdAndUpdate(id, {status}, {new: true}) and the answer.
UpdateStatus(op, id, newStatus) ==
    /\ IF ~IsValidObjectId(id)
       THEN /\ last' = Response(op, 400, 0, InvalidDate, <<>>, NoLabel)
            /\ UNCHANGED store
       ELSE \/ /\ last' = Response(op, 500, 1, InvalidDate, <<>>, NoLabel)
               /\ UNCHANGED store
            \/ /\ id \in 1..Len(store)
               /\ store' = [store EXCEPT ![id].status = newStatus]
               /\ last' = Response(op, 200, 1, InvalidDate, <<>>, NoLabel)
            \/ /\ id \notin 1..Len(store)
               /\ last' = Response(op, 404, 1, InvalidDate, <<>>, NoLabel)
               /\ UNCHANGED store
    /\ UNCHANGED <<pc, req, outcome>>

CancelAppointment(id) == UpdateStatus("cancel", id, "cancelled")

ConfirmAppointment(id) == UpdateStatus("confirm", id, "confirmed")

Next ==
    \/ \E p \in Requests, body \in Bodies : CreateCheck(p, body)
    \/ \E p \in Requests : CreateSaveOk(p)
    \/ \E p \in Requests : CreateSaveFail(p)
    \/ \E dateString \in DateInputs \ {MissingDate} : GetAvailableSlots(dateString)
    \/ \E id \in IdInputs : CancelAppointment(id)
    \/ \E id \in IdInputs : ConfirmAppointment(id)
    \/ GetAllAppointments

Spec == Init /\ [][Next]_vars

\* Bookings only: MaxCreates createAppointment requests, interleaved freely,
\* with no status change and no availability query in between.
InitCreates == InitWith(1..MaxCreates)

NextCreates ==
    \/ \E p \in 1..MaxCreates, body \in Bodies : CreateCheck(p, body)
    \/ \E p \in 1..MaxCreates : CreateSaveOk(p)
    \/ \E p \in 1..MaxCreates : CreateSaveFail(p)

SpecCreates == InitCreates /\ [][NextCreates]_vars

\* The same handlers with FewRequests createAppointment requests: enough for
\* what does not depend on how many bookings race.
InitFew == InitWith(1..FewRequests)

NextFew ==
    \/ \E p \in 1..FewRequests, body \in Bodies : CreateCheck(p, body)
    \/ \E p \in 1..FewRequests : CreateSaveOk(p)
    \/ \E p \in 1..FewRequests : CreateSaveFail(p)
    \/ \E dateString \in DateInputs \ {MissingDate} : GetAvailableSlots(dateString)
    \/ \E id \in IdInputs : CancelAppointment(id)
    \/ \E id \in IdInputs : ConfirmAppointment(id)
    \/ GetAllAppointments

SpecFew == InitFew /\ [][NextFew]_vars

(***************************************************************************)
(* The earlier controller (controllers/AppointmentController.ts) and the   *)
(* grid generator it was written for.  cancelAppointment,                  *)
(* confirmAppointment and the save of createAppointment are the same code. *)
(***************************************************************************)
WORKING_HOURS_START_HOUR == 9
WORKING_HOURS_END_HOUR == 17
LEGACY_SLOT_DURATION_MINUTES == 30

\* A loop whose condition is currentTime <= endTime.
RECURSIVE LegacySlotsToEndInclusive(_)
LegacySlotsToEndInclusive(currentTime) ==
    IF currentTime <= WORKING_HOURS_END_HOUR * 60
    THEN <<<<(currentTime \div 60) % 24, currentTime % 60>>>>
             \o LegacySlotsToEndInclusive(currentTime + LEGACY_SLOT_DURATION_MINUTES)
    ELSE <<>>

\* The while loop over Date values; currentTime is in minutes from the local
\* midnight of the day both new Date() calls fall on.  getHours() and
\* getMinutes() give the label, setMinutes(getMinutes() + 30) advances.
RECURSIVE LegacySlotsFrom(_)
LegacySlotsFrom(currentTime) ==
    IF currentTime < WORKING_HOURS_END_HOUR * 60
    THEN <<<<(currentTime \div 60) % 24, currentTime % 60>>>>
             \o LegacySlotsFrom(currentTime + LEGACY_SLOT_DURATION_MINUTES)
    ELSE <<>>

LegacyGenerateAllTimeSlots == LegacySlotsFrom(WORKING_HOURS_START_HOUR * 60)

\* bookedSlots holds start labels only; the filter is !bookedSlots.has(slot).
LegacyGetAvailableSlots(dateString) ==
    LET targetDate == parseDate(dateString)
        allSlots == LegacyGenerateAllTimeSlots
        bookedSlots == {store[i].timeSlot : i \in FindActive(store, targetDate)}
    IN  /\ IF dateString = MissingDate
           THEN last' = Response("slots", 400, 0, InvalidDate, <<>>, NoLabel)
           ELSE \/ last' = Response("slots", 500, 1, InvalidDate, <<>>, NoLabel)
                \/ /\ targetDate # InvalidDate
                   /\ last' = Response("slots", 200, 1, targetDate,
                                       SelectSeq(allSlots, LAMBDA slot : slot \notin bookedSlots),
                                       NoLabel)
        /\ UNCHANGED <<store, pc, req, outcome>>

\* The handler up to the answer of findOne({date, timeSlot, status}).
LegacyCreateCheck(p, body) ==
    /\ pc[p] = "idle"
    /\ \A q \in DOMAIN pc : q < p => pc[q] # "idle"
    /\ IF body.date = MissingDate \/ body.timeSlot = MissingSlot \/ ~body.client
       THEN /\ Finish(p, 400, 0, NoLabel)
            /\ UNCHANGED store
       ELSE LET targetDate == parseDate(body.date)
                existingAppointment == FindOccupied(store, targetDate, <<body.timeSlot>>)
            IN  \/ /\ Finish(p, 500, 1, NoLabel)
                   /\ UNCHANGED store
                \/ /\ targetDate # InvalidDate
                   /\ existingAppointment # {}
                   /\ Finish(p, 409, 1, NoLabel)
                   /\ UNCHANGED store
                \/ /\ targetDate # InvalidDate
                   /\ existingAppointment = {}
                   /\ pc' = [pc EXCEPT ![p] = "save"]
                   /\ req' = [req EXCEPT ![p] = [date |-> targetDate,
                                                 timeSlot |-> body.timeSlot,
                                                 duration |-> DurationOf(body)]]
                   /\ UNCHANGED <<store, outcome, last>>

NextLegacy ==
    \/ \E p \in 1..FewRequests, body \in Bodies : LegacyCreateCheck(p, body)
    \/ \E p \in 1..FewRequests : CreateSaveOk(p)
    \/ \E p \in 1..FewRequests : CreateSaveFail(p)
    \/ \E dateString \in DateInputs \ {MissingDate} : LegacyGetAvailableSlots(dateString)
    \/ \E id \in IdInputs : CancelAppointment(id)
    \/ \E id \in IdInputs : ConfirmAppointment(id)
    \/ GetAllAppointments

SpecLegacy == InitFew /\ [][NextLegacy]_vars

(***************************************************************************)
(* Notions the properties are stated in                                    *)
(***************************************************************************)
\* An appointment is active when it is pending or confirmed.
Active(a) == a.status = "pending" \/ a.status = "confirmed"

\* The label 30 minutes after a label of the working day.
ThirtyLater(label) ==
    IF label[2] < 30 THEN <<label[1], label[2] + 30>>
                     ELSE <<label[1] + 1, label[2] - 30>>

\* The labels an appointment (or a request) of a given start and duration
\* occupies: its start, and for 60 minutes the label 30 minutes later.
Occupies(timeSlot, duration) ==
    IF duration = 60 THEN {timeSlot, ThirtyLater(timeSlot)} ELSE {timeSlot}

\* The labels occupied on a day by the active appointments of a store.
OccupiedOn(st, day) ==
    UNION {Occupies(st[i].timeSlot, st[i].duration) :
               i \in {k \in 1..Len(st) : st[k].date = day /\ Active(st[k])}}

\* The record a request created.
RecordOf(p) == CHOOSE a \in Range(store) : a.req = p

\* The step is the first step of request p: its createAppointment call runs
\* from the entry of the handler to the answer of the availability query.
Arrives(p) == pc[p] = "idle" /\ pc'[p] # "idle"

\* A body the handler is meant to serve: every field present, a parsable
\* date, a duration of one or two grid units.
WellFormed(body) ==
    /\ body.date[1] = "iso"
    /\ body.timeSlot # MissingSlot
    /\ body.client
    /\ DurationOf(body) \in {30, 60}

(***************************************************************************)
(* C1: in every reachable state no two distinct active appointments of the *)
(* same date share an occupied label.                                      *)
(***************************************************************************)
C1_NoSharedLabel ==
    \A i, j \in 1..Len(store) :
        (i < j /\ Active(store[i]) /\ Active(store[j])
               /\ store[i].date = store[j].date)
        => Occupies(store[i].timeSlot, store[i].duration)
               \cap Occupies(store[j].timeSlot, store[j].duration) = {}

(***************************************************************************)
(* C2: of the createAppointment requests that need the same free label of  *)
(* one date, exactly one is answered 201.  Stated for requests with the    *)
(* same start label whose records were never cancelled or confirmed: two   *)
(* such requests are never both answered 201.                              *)
(***************************************************************************)
C2_OneWinner ==
    \A p, q \in DOMAIN pc :
        (p < q /\ outcome[p] = 201 /\ outcome[q] = 201)
        => ~ /\ RecordOf(p).date = RecordOf(q).date
             /\ RecordOf(p).timeSlot = RecordOf(q).timeSlot
             /\ RecordOf(p).status = "pending"
             /\ RecordOf(q).status = "pending"

(***************************************************************************)
(* C3: a createAppointment whose required labels include a label occupied  *)
(* by an active appointment of that date is answered with a conflict (or   *)
(* a store failure) and leaves the store unchanged.                        *)
(***************************************************************************)
C3_RejectsOccupied ==
    [][\A p \in DOMAIN pc : Arrives(p) => \A body \in Bodies :
          (/\ CreateCheck(p, body)
           /\ WellFormed(body)
           /\ Occupies(body.timeSlot, DurationOf(body))
                  \cap OccupiedOn(store, parseDate(body.date)) # {})
          => (outcome'[p] \in {409, 500} /\ store' = store)]_vars

\* The grid of the day as a set, and the grid label that follows a label.
Grid == Range(generateAllTimeSlots)

IndexInGrid(label) == CHOOSE i \in 1..Len(generateAllTimeSlots) : generateAllTimeSlots[i] = label

IsLastOfGrid(label) == IndexInGrid(label) = Len(generateAllTimeSlots)

NextInGrid(label) == generateAllTimeSlots[IndexInGrid(label) + 1]

\* The last response is an availability list computed from the current store.
SlotsAnswered == last.op = "slots" /\ last.status = 200

(***************************************************************************)
(* C4: getAvailableSlots returns no label occupied by an active            *)
(* appointment of the date and no label whose 60 minute run ends on an     *)
(* occupied label; createAppointment rejects a 60 minute request whose     *)
(* second label is occupied.                                               *)
(***************************************************************************)
C4_OffersOnlyFree ==
    SlotsAnswered =>
        \A label \in Range(last.slots) :
            /\ label \notin OccupiedOn(store, last.date)
            /\ ThirtyLater(label) \notin OccupiedOn(store, last.date)

C4_CreateRejects ==
    \A p \in DOMAIN pc : Arrives(p) => \A body \in Bodies :
        (/\ CreateCheck(p, body)
         /\ WellFormed(body)
         /\ DurationOf(body) = 60
         /\ ThirtyLater(body.timeSlot) \in OccupiedOn(store, parseDate(body.date)))
        => (outcome'[p] \in {409, 500} /\ store' = store)

C4_AvailabilityExcludesOccupied == []C4_OffersOnlyFree /\ [][C4_CreateRejects]_vars

(***************************************************************************)
(* C5: a cancelled appointment occupies nothing.  getAvailableSlots leaves *)
(* out a grid label a cancelled appointment held only for a reason that    *)
(* stands without it (the label or the next grid label is occupied by an   *)
(* active appointment, or the label is the last of the grid), and          *)
(* createAppointment answers 409 only when an active appointment occupies  *)
(* a required label, naming a label that is occupied.                      *)
(***************************************************************************)
C5_SlotsIgnoreCancelled ==
    SlotsAnswered =>
        \A i \in 1..Len(store) :
            (store[i].status = "cancelled" /\ store[i].date = last.date) =>
                \A label \in Occupies(store[i].timeSlot, store[i].duration) \cap Grid :
                    (/\ ~IsLastOfGrid(label)
                     /\ label \notin OccupiedOn(store, last.date)
                     /\ NextInGrid(label) \notin OccupiedOn(store, last.date))
                    => label \in Range(last.slots)

C5_CreateIgnoresCancelled ==
    \A p \in DOMAIN pc : (Arrives(p) /\ outcome'[p] = 409) => \A body \in Bodies :
        CreateCheck(p, body)
        => /\ Occupies(body.timeSlot, DurationOf(body))
                  \cap OccupiedOn(store, parseDate(body.date)) # {}
           /\ last'.conflictSlot \in OccupiedOn(store, parseDate(body.date))

C5_CancelledFreesLabels == []C5_SlotsIgnoreCancelled /\ [][C5_CreateIgnoresCancelled]_vars

\* An availability list that offers the start of a cancelled appointment.
C5_Witness ==
    /\ SlotsAnswered
    /\ \E i \in 1..Len(store) :
           /\ store[i].status = "cancelled"
           /\ store[i].date = last.date
           /\ store[i].timeSlot \in Range(last.slots)

(***************************************************************************)
(* C6: getAvailableSlots returns no start whose 60 minute run leaves the   *)
(* grid: the label 30 minutes after a returned label is a grid label.      *)
(***************************************************************************)
C6_RunStaysInGrid ==
    SlotsAnswered =>
        \A label \in Range(last.slots) : ThirtyLater(label) \in Grid

(***************************************************************************)
(* C7: createAppointment answers 400 and creates nothing when the start is *)
(* no grid label, or the duration is 60 and the label 30 minutes after the *)
(* start is no grid label; hence every active appointment occupies grid    *)
(* labels only.  Steps in which the store itself fails are left aside.     *)
(***************************************************************************)
C7_OffGridIsRejected ==
    \A p \in DOMAIN pc : Arrives(p) => \A body \in Bodies :
        (/\ CreateCheck(p, body)
         /\ WellFormed(body)
         /\ Occupies(body.timeSlot, DurationOf(body)) \ Grid # {}
         /\ outcome'[p] # 500)
        => (outcome'[p] = 400 /\ store' = store)

C7_ActiveOnGrid ==
    \A i \in 1..Len(store) :
        Active(store[i]) => Occupies(store[i].timeSlot, store[i].duration) \subseteq Grid

C7_OnlyGridRuns == [][C7_OffGridIsRejected]_vars /\ []C7_ActiveOnGrid

(***************************************************************************)
(* C8: createAppointment answers 400 without a store call, and leaves the  *)
(* store unchanged, when the date is missing or cannot be parsed or the    *)
(* duration is not a positive multiple of 30 minutes.  Steps in which the  *)
(* store itself fails are left aside.                                      *)
(***************************************************************************)
C8_InvalidIsRejectedLocally ==
    [][\A p \in DOMAIN pc : Arrives(p) => \A body \in Bodies :
          (/\ CreateCheck(p, body)
           /\ \/ body.date = MissingDate
              \/ parseDate(body.date) = InvalidDate
              \/ DurationOf(body) <= 0
              \/ DurationOf(body) % SLOT_DURATION_MINUTES # 0
           /\ outcome'[p] # 500)
          => (outcome'[p] = 400 /\ last'.calls = 0 /\ store' = store)]_vars

(***************************************************************************)
(* C9: the label a 409 answer names is the first label, in the order start *)
(* then start + 30, that an active appointment of the date occupies.       *)
(***************************************************************************)
RequiredInOrder(timeSlot, duration) ==
    IF duration = 60 THEN <<timeSlot, ThirtyLater(timeSlot)>> ELSE <<timeSlot>>

FirstOccupied(labels, occupied) ==
    labels[CHOOSE i \in 1..Len(labels) :
               /\ labels[i] \in occupied
               /\ \A k \in 1..(i - 1) : labels[k] \notin occupied]

C9_NamesFirstConflict ==
    [][\A p \in DOMAIN pc : (Arrives(p) /\ outcome'[p] = 409) => \A body \in Bodies :
          CreateCheck(p, body)
          => last'.conflictSlot =
                 FirstOccupied(RequiredInOrder(body.timeSlot, DurationOf(body)),
                               OccupiedOn(store, parseDate(body.date)))]_vars

(***************************************************************************)
(* C10: a createAppointment request ends with exactly one of 201, 409, 400 *)
(* and 500; the record of the request exists exactly when the answer is    *)
(* 201; an answer of 400, 409 or 500 leaves the store as it was.           *)
(***************************************************************************)
RecordsOf(p) == {i \in 1..Len(store) : store[i].req = p}

C10_OneOutcome ==
    \A p \in DOMAIN pc :
        /\ pc[p] = "done" => outcome[p] \in {201, 400, 409, 500}
        /\ pc[p] # "done" => outcome[p] = 0
        /\ Cardinality(RecordsOf(p)) = (IF outcome[p] = 201 THEN 1 ELSE 0)

C10_FailureKeepsStore ==
    \A p \in DOMAIN pc :
        /\ outcome[p] # 0 => outcome'[p] = outcome[p]
        /\ (outcome[p] = 0 /\ outcome'[p] \in {400, 409, 500}) => store' = store
        /\ (outcome[p] = 0 /\ outcome'[p] = 201) => Len(store') = Len(store) + 1

MinutesOf(label) == label[1] * 60 + label[2]

C13_LegacyGrid ==
    LET slots == LegacyGenerateAllTimeSlots
    IN  SlotsAnswered =>
        /\ Len(slots) = 16
        /\ slots[1] = <<9, 0>>
        /\ slots[Len(slots)] = <<16, 30>>
        /\ \A i \in 1..(Len(slots) - 1) :
               MinutesOf(slots[i + 1]) = MinutesOf(slots[i]) + 30

\* The earlier getAvailableSlots has answered with the whole grid, 12:30
\* included, for a day without bookings.
C13_Witness ==
    /\ SlotsAnswered
    /\ last.slots = LegacyGenerateAllTimeSlots
    /\ <<12, 30>> \in Range(last.slots)

(***************************************************************************)
(* C14: for a booking of one grid unit (30 minutes) every grid label that  *)
(* no active appointment of the date occupies is a valid start, whether or *)
(* not a following label exists or is free: each such label is in the list *)
(* getAvailableSlots answers (20:00, when free, is offered).               *)
(***************************************************************************)
C14_EveryFreeLabelOffered ==
    SlotsAnswered =>
        \A label \in Grid :
            label \notin OccupiedOn(store, last.date) => label \in Range(last.slots)

(***************************************************************************)
(* C15: createAppointment requests of one date whose required labels are   *)
(* disjoint and free do not interfere, however their steps interleave.  A  *)
(* well-formed request whose required labels no active appointment of the  *)
(* date occupies when its conflict query runs is not answered 400 or 409   *)
(* (no step that answers so is a step of such a request);                  *)
(* once past the query it is answered 201 unless the store fails, and its  *)
(* save never waits for another request.                                   *)
(***************************************************************************)
C15_FreeIsNotRefused ==
    \A p \in DOMAIN pc :
        /\ (Arrives(p) /\ outcome'[p] \in {400, 409}) =>
               \A body \in Bodies :
                   (/\ WellFormed(body)
                    /\ Occupies(body.timeSlot, DurationOf(body))
                           \cap OccupiedOn(store, parseDate(body.date)) = {})
                       => ~CreateCheck(p, body)
        /\ (pc[p] = "save" /\ pc'[p] # "save") => outcome'[p] \in {201, 500}

C15_SaveNotBlocked == \A p \in DOMAIN pc : pc[p] = "save" => ENABLED CreateSaveOk(p)

C15_DisjointBothSucceed == []C15_SaveNotBlocked /\ [][C15_FreeIsNotRefused]_vars

\* Two requests of one date with disjoint labels were both answered 201, and
\* the one that arrived later was saved first: their steps interleaved.
C15_Witness ==
    \E i, j \in 1..Len(store) :
        /\ i < j /\ store[i].req > store[j].req
        /\ outcome[store[i].req] = 201 /\ outcome[store[j].req] = 201
        /\ store[i].date = store[j].date
        /\ store[i].status = "pending" /\ store[j].status = "pending"
        /\ Occupies(store[i].timeSlot, store[i].duration)
               \cap Occupies(store[j].timeSlot, store[j].duration) = {}

(***************************************************************************)
(* C16: a createAppointment answered 201 adds exactly one record, pending, *)
(* whose date, start label and duration are those of the request (the date *)
(* as parseDate gives it, the duration 60 when the body has none), and     *)
(* changes no other record.                                                *)
(***************************************************************************)
C16_AdmittedAsRequested ==
    \A p \in DOMAIN pc :
        (Arrives(p) /\ pc'[p] = "save") =>
            \A body \in Bodies :
                CreateCheck(p, body)
                    => /\ req'[p].date = parseDate(body.date)
                       /\ req'[p].timeSlot = body.timeSlot
                       /\ req'[p].duration = DurationOf(body)
                       /\ store' = store

C16_SavedAsAdmitted ==
    \A p \in DOMAIN pc :
        (outcome[p] # 201 /\ outcome'[p] = 201)
            => /\ Len(store') = Len(store) + 1
               /\ \A i \in 1..Len(store) : store'[i] = store[i]
               /\ store'[Len(store')].status = "pending"
               /\ store'[Len(store')].date = req[p].date
               /\ store'[Len(store')].timeSlot = req[p].timeSlot
               /\ store'[Len(store')].duration = req[p].duration
               /\ store'[Len(store')].req = p

C16_OnePendingRecord == [][C16_AdmittedAsRequested /\ C16_SavedAsAdmitted]_vars

\* A 60 minute request has just been answered 201 next to an earlier record.
C16_Witness ==
    /\ last.op = "create" /\ last.status = 201
    /\ Len(store) = 2
    /\ outcome[store[2].req] = 201
    /\ store[2].duration = 60 /\ store[2].status = "pending"
    /\ store[1].status = "cancelled"

(***************************************************************************)
(* C17: cancelAppointment and confirmAppointment called with an id that    *)
(* names no stored appointment answer 404 and leave every record           *)
(* unchanged.  Steps on which the store itself fails (500) are left aside. *)
(***************************************************************************)
StatusRequest(id) ==
    /\ last'.op \in {"cancel", "confirm"}
    /\ CancelAppointment(id) \/ ConfirmAppointment(id)

\* As stated: for every id that names no stored appointment.
C17_AbsentIdIs404 ==
    \A id \in IdInputs :
        (StatusRequest(id) /\ id \notin 1..Len(store) /\ last'.status # 500)
            => (last'.status = 404 /\ store' = store)

C17_AnyAbsentIdIs404 == [][C17_AbsentIdIs404]_vars

\* Amended: an id that is a well-formed ObjectId and names no stored
\* appointment is answered 404; an id that is not a well-formed ObjectId is
\* answered 400; the store is unchanged in both cases.
C17_AbsentIdIs404Or400 ==
    \A id \in IdInputs :
        (StatusRequest(id) /\ id \notin 1..Len(store) /\ last'.status # 500)
            => /\ last'.status = IF IsValidObjectId(id) THEN 404 ELSE 400
               /\ store' = store

C17_WellFormedAbsentIdIs404 == [][C17_AbsentIdIs404Or400]_vars

\* confirmAppointment has just answered 404 while the store holds a record.
C17_Witness ==
    /\ last.op = "confirm" /\ last.status = 404
    /\ Len(store) = 1
    /\ store[1].status = "pending"

(***************************************************************************)
(* C18: getAllAppointments returns exactly the appointments whose status   *)
(* is pending or confirmed, each once and with its own fields, ordered by  *)
(* date ascending and, within a date, by start label ascending.            *)
(***************************************************************************)
C18_ActiveInOrder ==
    (last.op = "list" /\ last.status = 200) =>
        LET listed == last.appointments
        IN  /\ {listed[i].id : i \in 1..Len(listed)}
                   = {k \in 1..Len(store) : Active(store[k])}
            /\ \A i, j \in 1..Len(listed) : i # j => listed[i].id # listed[j].id
            /\ \A i \in 1..Len(listed) :
                   /\ listed[i].date = store[listed[i].id].date
                   /\ listed[i].timeSlot = store[listed[i].id].timeSlot
                   /\ listed[i].duration = store[listed[i].id].duration
                   /\ listed[i].status = store[listed[i].id].status
            /\ \A i, j \in 1..Len(listed) :
                   i < j => \/ listed[i].date < listed[j].date
                            \/ /\ listed[i].date = listed[j].date
                               /\ MinutesOf(listed[i].timeSlot) <= MinutesOf(listed[j].timeSlot)

\* The list holds two appointments in the opposite of their insertion order:
\* the later insertion is of an earlier date.
C18_Witness ==
    /\ last.op = "list" /\ last.status = 200
    /\ Len(last.appointments) = 2
    /\ last.appointments[1].id = 2
    /\ last.appointments[1].date < last.appointments[2].date
    /\ MinutesOf(last.appointments[1].timeSlot) > MinutesOf(last.appointments[2].timeSlot)

(***************************************************************************)
(* C19: cancelled is a terminal status.  No step makes a cancelled         *)
(* appointment active again, and so no confirmAppointment step takes a     *)
(* store without a shared label to a store in which two active             *)
(* appointments of one date share a label.                                 *)
(***************************************************************************)
C19_StaysCancelled ==
    \A i \in 1..Len(store) :
        store[i].status = "cancelled" => store'[i].status = "cancelled"

C19_ConfirmKeepsNoOverlap ==
    (last'.op = "confirm" /\ C1_NoSharedLabel) => C1_NoSharedLabel'

C19_CancelledIsTerminal == [][C19_StaysCancelled /\ C19_ConfirmKeepsNoOverlap]_vars

(***************************************************************************)
(* C20: availability and admission agree.  When getAvailableSlots has just *)
(* answered for a date with a list that holds the label s, and the next    *)
(* step is the conflict query of createAppointment(date, s, 60), the       *)
(* request is not answered 409.                                            *)
(***************************************************************************)
C20_OfferedIsAdmitted ==
    \A p \in DOMAIN pc :
        (SlotsAnswered /\ Arrives(p) /\ outcome'[p] = 409) =>
            \A body \in Bodies :
                (/\ WellFormed(body)
                 /\ parseDate(body.date) = last.date
                 /\ body.timeSlot \in Range(last.slots)
                 /\ DurationOf(body) = 60)
                    => ~CreateCheck(p, body)

C20_AvailabilityAgreesWithAdmission == [][C20_OfferedIsAdmitted]_vars

(***************************************************************************)
(* C21: a cancelAppointment(id) or confirmAppointment(id) answered 200     *)
(* changes only the status field of the appointment with that id, to       *)
(* cancelled or confirmed respectively: its date, start label and duration *)
(* and every other appointment are unchanged, and no record is added or    *)
(* removed.                                                                *)
(***************************************************************************)
C21_OnlyStatusOfId ==
    \A id \in IdInputs :
        (StatusRequest(id) /\ last'.status = 200)
            => /\ id \in 1..Len(store)
               /\ Len(store') = Len(store)
               /\ \A k \in 1..Len(store) : k # id => store'[k] = store[k]
               /\ store'[id].date = store[id].date
               /\ store'[id].timeSlot = store[id].timeSlot
               /\ store'[id].duration = store[id].duration
               /\ store'[id].req = store[id].req
               /\ store'[id].status = IF last'.op = "cancel" THEN "cancelled"
                                                            ELSE "confirmed"
               /\ UNCHANGED <<pc, req, outcome>>

C21_StatusUpdateFrame == [][C21_OnlyStatusOfId]_vars

\* cancelAppointment has just answered 200 for the first of two appointments
\* of one date; the second is still pending.
C21_Witness ==
    /\ last.op = "cancel" /\ last.status = 200
    /\ Len(store) = 2
    /\ store[1].status = "cancelled" /\ store[1].duration = 60
    /\ store[2].status = "pending"
    /\ store[1].date = store[2].date

====
